---- MODULE Spec2Model ----
(***************************************************************************)
(* raiden/utils/filters.py: StatelessFilter, a log fetcher that polls      *)
(* eth_getLogs in bounded block ranges and keeps a resumable cursor        *)
(* (_last_block) behind a per-instance lock.                               *)
(*                                                                         *)
(* One StatelessFilter instance is modelled, shared by the greenlets in    *)
(* Callers.  A greenlet only yields where the code blocks: on acquiring    *)
(* the lock and inside a web3 request, so every action below runs from one *)
(* such point to the next.  The answers of the node (a request succeeds or *)
(* raises, the height "latest" resolves to) are inputs drawn with \E.      *)
(*                                                                         *)
(* raiden/blockchain/state.py: the functions that load the confirmed data  *)
(* of a blockchain event.  One call of one of them is modelled: its        *)
(* arguments are drawn when it begins, and it runs from one request to the *)
(* node, or one search of the storage, to the next.                        *)
(***************************************************************************)
EXTENDS Integers, Sequences, FiniteSets

\* Bounds of the model.
MaxBlock == 3
MaxRange == 2

Blocks == 0..MaxBlock
\* The greenlets that share the filter instance.
Callers == {"g1", "g2"}

\* Block specifications are integers here: a height is itself (>= 0, the
\* cursor also -1), and the values that are no height are encoded below -1.
\* Python's None, also standing for a key that filter_params does not hold.
NoneVal == -2
\* The block specifications "latest" and "pending".
LATEST == -3
PENDING == -4
Symbolic == {LATEST, PENDING}

\* raiden.constants.GENESIS_BLOCK_NUMBER
GENESIS_BLOCK_NUMBER == 0

VARIABLES
    filter_params,           \* self.filter_params: its fromBlock and toBlock
    FILTER_MAX_BLOCK_RANGE,  \* the module constant, fixed by Init
    last_block,              \* self._last_block, the fetch cursor
    lock,                    \* self._lock, the Semaphore's counter
    calls,                   \* per greenlet: the frame of its current or last call
    archive,                 \* history: blocks answered to the get_new_entries calls
                             \* that ended since the last replay by get_all_entries
    delivered,               \* history: those of the blocks of archive that were
                             \* answered to calls that returned
    cursor_set_by,           \* history: how the call that last wrote the cursor ended
    chain_state,             \* the ChainState object passed to the function of state.py
    storage,                 \* the records of the SerializedSQLiteStorage passed to it
    res                      \* the frame of that call

\* The variables of the function call of state.py.
rvars == <<chain_state, storage, res>>

\* The variables of the StatelessFilter.
fvars == <<filter_params, FILTER_MAX_BLOCK_RANGE, last_block, lock, calls, archive, delivered,
           cursor_set_by>>

vars == <<filter_params, FILTER_MAX_BLOCK_RANGE, last_block, lock, calls, archive, delivered,
          cursor_set_by, chain_state, storage, res>>

----------------------------------------------------------------------------
(* The arguments of the functions of state.py. *)

\* Bounds: the channel identifiers, and the records a storage holds.
MaxChannels == 2
MaxRecords == 2

ChannelIds == 1..MaxChannels
\* chain_state.our_address is OurAddress; the other addresses are partners or
\* strangers.
OurAddress == "A"
Addresses == {"A", "B", "C"}
TokenNetworks == {"TN1", "TN2"}
Locksroots == {"L1", "L2"}
\* chain_state.chain_id, and event.chain_id of the events of that chain.
ChainID == 1

\* Python's None as a returned value.
NoResult == [tag |-> "None"]

CanonicalIdentifier(chain_identifier, token_network_address, channel_identifier) ==
    [tag |-> "CanonicalIdentifier",
     chain_identifier |-> chain_identifier,
     token_network_address |-> token_network_address,
     channel_identifier |-> channel_identifier]

\* The NettingChannelState of a channel the node takes part in.
NettingChannelState(token_network_address, channel_identifier, partner) ==
    [tag |-> "NettingChannelState",
     canonical_identifier |->
         CanonicalIdentifier(ChainID, token_network_address, channel_identifier),
     our_address |-> OurAddress,
     partner_address |-> partner]

\* The lists a partner's channel identifiers are recorded in: every order of
\* every set of identifiers.
RECURSIVE Orderings(_)
Orderings(ids) ==
    IF ids = {} THEN {<< >>}
    ELSE UNION {{<<c>> \o o : o \in Orderings(ids \ {c})} : c \in ids}

ChannelIdLists == UNION {Orderings(ids) : ids \in SUBSET ChannelIds}

\* A ChainState.  token_networks are the token networks it holds, all under
\* the one token network registry "REG"; channels is
\* channelidentifiers_to_channels and partners is
\* partneraddresses_to_channelidentifiers, both over all its token networks.
\* "TN1" holds the channels chs with partner "B", whose recorded identifiers
\* are the list ids_of_b (NotRecorded: "B" is not recorded); "TN2", when
\* held, holds channel 1 with partner "C".
NotRecorded == <<0>>

ChainStateOf(known, chs, ids_of_b) ==
    LET keys == ({<<"TN1", c>> : c \in chs} \cup {<<"TN2", 1>>}) \cap (known \X ChannelIds)
        recorded == ((IF ids_of_b = NotRecorded THEN {} ELSE {<<"TN1", "B">>})
                        \cup {<<"TN2", "C">>}) \cap (known \X Addresses)
    IN [our_address |-> OurAddress,
        chain_id |-> ChainID,
        token_networks |-> known,
        channels |-> [k \in keys |->
                         NettingChannelState(k[1], k[2], IF k[1] = "TN1" THEN "B" ELSE "C")],
        partners |-> [k \in recorded |-> IF k[1] = "TN1" THEN ids_of_b ELSE <<1>>]]

KnownTokenNetworks == {{}, {"TN1"}, {"TN1", "TN2"}}

\* The chain states with the channels chs in "TN1".
ChainStatesWith(chs) ==
    {ChainStateOf(known, chs, ids) :
        known \in KnownTokenNetworks, ids \in ChannelIdLists \cup {NotRecorded}}

ChainStates == UNION {ChainStatesWith(chs) : chs \in SUBSET ChannelIds}

\* The records of the storage that carry a balance proof: a state change
\* (a balance proof received from address) or an event (a balance proof sent
\* to address).
Records ==
    {[kind |-> k, token_network_address |-> "TN1", channel_identifier |-> c,
      locksroot |-> la[1], address |-> la[2]] :
        k \in {"state_change", "event"}, c \in ChannelIds,
        la \in {<<"L1", "B">>, <<"L2", "B">>, <<"L1", "C">>}}

Storages == {st \in SUBSET Records : Cardinality(st) <= MaxRecords}

\* No function of state.py was called.
IdleResolve ==
    [kind |-> "none", pc |-> "idle", event |-> NoResult,
     latest_confirmed_block |-> 0, chain_state_at_call |-> NoResult,
     channel_state |-> NoResult, partner |-> "-",
     channel_identifiers |-> << >>, next |-> 1,
     queries |-> << >>, lookups |-> << >>,
     result |-> NoResult, error |-> "none"]

NoCall ==
    /\ chain_state = NoResult
    /\ storage = {}
    /\ res = IdleResolve

----------------------------------------------------------------------------
(* StatelessFilter. *)

Max(a, b) == IF a >= b THEN a ELSE b
Min(a, b) == IF a <= b THEN a ELSE b

\* Python truthiness of an Optional[int]: None and 0 are falsy.
Truthy(x) == x # NoneVal /\ x # 0

\* raiden.utils.block_specification_to_number: a number is itself, "latest" and
\* "pending" are the height the node reports (latest).
block_specification_to_number(block, latest) ==
    IF block \in Symbolic THEN latest ELSE block

\* web3.eth.getLogs over the inclusive range from..to: one matching entry per
\* block, named by its block number, in ascending block order.
getLogs(from, to) ==
    IF to < from THEN << >> ELSE [i \in 1..(to - from + 1) |-> from + i - 1]

\* eth_getLogs resolves a symbolic or absent bound to the node's head.
NodeBound(b, head) == IF b \in Symbolic \cup {NoneVal} THEN head ELSE b

IdleCall ==
    [op |-> "none", pc |-> "idle", arg |-> NoneVal, start_block |-> -1,
     start_set_by |-> "init",
     filter_from_number |-> NoneVal, from_block_number |-> NoneVal,
     block_number |-> NoneVal, height_queried |-> FALSE,
     queries |-> << >>, result |-> << >>]

\* The greenlet is not inside a call of the filter.
NotInCall(p) == calls[p].pc \in {"idle", "returned", "raised"}

\* The greenlet may enter the with block: it calls now, or it called earlier
\* and waits for the lock.
AtLock(p) == NotInCall(p) \/ calls[p].pc = "waiting"

\* Blocks covered by the answered queries of a get_new_entries frame.
AnsweredBlocks(c) ==
    IF c.op # "get_new_entries" THEN {}
    ELSE UNION {c.queries[i].fromBlock..c.queries[i].toBlock :
                    i \in {j \in 1..Len(c.queries) : c.queries[j].ok}}

\* A new call of greenlet p, with frame c.  Only the frames of calls that have
\* not ended and of the call that ended last are kept: the frames of ended
\* calls are dropped, and what they fetched is kept in archive.
Enter(p, c) ==
    /\ calls' = [q \in Callers |->
                    IF q = p
                    THEN IF c.pc = "waiting" THEN c
                         ELSE [c EXCEPT !.start_set_by = cursor_set_by]
                    ELSE IF NotInCall(q) THEN IdleCall ELSE calls[q]]
    /\ archive' = archive \cup
                     UNION {AnsweredBlocks(calls[q]) : q \in {r \in Callers : NotInCall(r)}}
    /\ delivered' = delivered \cup
                     UNION {AnsweredBlocks(calls[q]) :
                                q \in {r \in Callers : calls[r].pc = "returned"}}

Init ==
    /\ filter_params \in [fromBlock : {NoneVal, PENDING, 2},
                          toBlock : {NoneVal, LATEST, PENDING, 0, 3}]
    /\ FILTER_MAX_BLOCK_RANGE \in 1..MaxRange
    /\ last_block = -1
    /\ lock = 1
    /\ calls = [p \in Callers |-> IdleCall]
    /\ archive = {}
    /\ delivered = {}
    /\ cursor_set_by = "init"
    /\ NoCall

\* Mutant: the with block is entered without waiting for the Semaphore.
CanAcquireNoWait == TRUE

\* with self._lock: the Semaphore is acquired when its counter is positive.
CanAcquire == lock > 0

\* Mutant: the filter's fromBlock is not read.
FilterFromBlockGenesis == GENESIS_BLOCK_NUMBER

\* self.filter_params.get("fromBlock", GENESIS_BLOCK_NUMBER)
FilterFromBlock ==
    IF filter_params.fromBlock = NoneVal THEN GENESIS_BLOCK_NUMBER
    ELSE filter_params.fromBlock

\* Mutant: the range starts at the cursor's block, not after it.
FromBlockNumberInclusive(filter_from_number, last) == Max(filter_from_number, last)

\* Mutant: the range starts at the filter's fromBlock whatever the cursor is.
FromBlockNumberNoCursor(filter_from_number, last) == filter_from_number

\* from_block_number = max(filter_from_number, self._last_block + 1)
FromBlockNumber(filter_from_number, last) == Max(filter_from_number, last + 1)

\* Mutant: the chunk end is not clamped to the target.
ToBlockUnclamped(from_block_number, target_block_number) ==
    from_block_number + FILTER_MAX_BLOCK_RANGE

\* to_block = min(from_block_number + FILTER_MAX_BLOCK_RANGE, target_block_number)
ToBlock(from_block_number, target_block_number) ==
    Min(from_block_number + FILTER_MAX_BLOCK_RANGE, target_block_number)

\* from_block_number += FILTER_MAX_BLOCK_RANGE
NextFromBlock(from_block_number, to_block) ==
    from_block_number + FILTER_MAX_BLOCK_RANGE

\* get_new_entries up to its first getLogs request: the lock is taken, the
\* filter's fromBlock resolved and the first range computed.  With an empty
\* range the loop is skipped and the call returns [] at once.
NewBegin(p, target, latest) ==
    /\ AtLock(p)
    /\ CanAcquire
    /\ LET ffn == block_specification_to_number(FilterFromBlock, latest)
           fbn == FromBlockNumber(ffn, last_block)
           c == [IdleCall EXCEPT !.op = "get_new_entries", !.arg = target,
                                 !.start_block = last_block,
                                 !.filter_from_number = ffn,
                                 !.from_block_number = fbn]
       IN IF fbn <= target
          THEN /\ Enter(p, [c EXCEPT !.pc = "running"])
               /\ lock' = lock - 1
          ELSE /\ Enter(p, [c EXCEPT !.pc = "returned"])
               /\ lock' = lock
    /\ UNCHANGED <<filter_params, FILTER_MAX_BLOCK_RANGE, last_block, cursor_set_by>>
    /\ UNCHANGED rvars

\* get_new_entries whose block_specification_to_number request raises: the
\* exception leaves the with block, nothing was queried.
NewResolveFails(p, target) ==
    /\ AtLock(p)
    /\ CanAcquire
    /\ FilterFromBlock \in Symbolic
    /\ Enter(p, [IdleCall EXCEPT !.op = "get_new_entries", !.arg = target,
                                 !.start_block = last_block, !.pc = "raised"])
    /\ UNCHANGED <<filter_params, FILTER_MAX_BLOCK_RANGE, last_block, lock, cursor_set_by>>
    /\ UNCHANGED rvars

\* The pending getLogs of _do_get_new_entries answers: the cursor is set to
\* to_block, the entries are appended, and the loop either issues the next
\* request or ends, returning result and releasing the lock.
NewChunkOk(p) ==
    /\ calls[p].pc = "running"
    /\ calls[p].op = "get_new_entries"
    /\ LET c == calls[p]
           to_block == ToBlock(c.from_block_number, c.arg)
           next_from == NextFromBlock(c.from_block_number, to_block)
           d == [c EXCEPT !.queries = Append(@, [fromBlock |-> c.from_block_number,
                                                 toBlock |-> to_block, ok |-> TRUE]),
                          !.result = @ \o getLogs(c.from_block_number, to_block),
                          !.from_block_number = next_from]
       IN /\ last_block' = block_specification_to_number(to_block, to_block)
          /\ IF next_from <= c.arg
             THEN /\ calls' = [calls EXCEPT ![p] = d]
                  /\ lock' = lock
                  /\ cursor_set_by' = "running"
             ELSE /\ calls' = [calls EXCEPT ![p] = [d EXCEPT !.pc = "returned"]]
                  /\ lock' = lock + 1
                  /\ cursor_set_by' = "returned"
    /\ UNCHANGED <<filter_params, FILTER_MAX_BLOCK_RANGE, archive, delivered>>
    /\ UNCHANGED rvars

\* The pending getLogs of _do_get_new_entries raises: the exception leaves
\* get_new_entries, the lock is released and result is lost.
NewChunkFails(p) ==
    /\ calls[p].pc = "running"
    /\ calls[p].op = "get_new_entries"
    /\ LET c == calls[p]
           to_block == ToBlock(c.from_block_number, c.arg)
       IN calls' = [calls EXCEPT ![p] =
                       [c EXCEPT !.queries = Append(@, [fromBlock |-> c.from_block_number,
                                                        toBlock |-> to_block, ok |-> FALSE]),
                                 !.result = << >>,
                                 !.pc = "raised"]]
    /\ lock' = lock + 1
    /\ cursor_set_by' = IF cursor_set_by = "running" THEN "raised" ELSE cursor_set_by
    /\ UNCHANGED <<filter_params, FILTER_MAX_BLOCK_RANGE, last_block, archive, delivered>>
    /\ UNCHANGED rvars

\* get_all_entries up to its getLogs request: the lock is taken, block_number
\* defaults to the node's height, a symbolic toBlock is replaced by it.
AllBegin(p, height, chain_height) ==
    /\ AtLock(p)
    /\ CanAcquire
    /\ LET block_number == IF Truthy(height) THEN height ELSE chain_height
           to_block == IF filter_params.toBlock \in Symbolic THEN block_number
                       ELSE filter_params.toBlock
       IN Enter(p, [IdleCall EXCEPT !.op = "get_all_entries", !.arg = height,
                                    !.pc = "running",
                                    !.start_block = last_block,
                                    !.block_number = block_number,
                                    !.height_queried = ~Truthy(height),
                                    !.queries = <<[fromBlock |-> filter_params.fromBlock,
                                                   toBlock |-> to_block,
                                                   ok |-> FALSE]>>])
    /\ lock' = lock - 1
    /\ UNCHANGED <<filter_params, FILTER_MAX_BLOCK_RANGE, last_block, cursor_set_by>>
    /\ UNCHANGED rvars

\* get_all_entries whose web3.eth.blockNumber request raises.
AllHeightFails(p, height) ==
    /\ AtLock(p)
    /\ CanAcquire
    /\ ~Truthy(height)
    /\ Enter(p, [IdleCall EXCEPT !.op = "get_all_entries", !.arg = height,
                                 !.start_block = last_block,
                                 !.height_queried = TRUE, !.pc = "raised"])
    /\ UNCHANGED <<filter_params, FILTER_MAX_BLOCK_RANGE, last_block, lock, cursor_set_by>>
    /\ UNCHANGED rvars

\* self._last_block after getLogs in get_all_entries.
AllLastBlock(to_block, block_number) ==
    IF Truthy(to_block) THEN block_specification_to_number(to_block, block_number)
    ELSE block_number

\* The getLogs of get_all_entries answers: the cursor is set and the call
\* returns.  The node's head is taken to be block_number, the height the
\* caller passed as the latest or read from the node in this call.
AllOk(p) ==
    /\ calls[p].pc = "running"
    /\ calls[p].op = "get_all_entries"
    /\ LET c == calls[p]
           q == c.queries[1]
       IN /\ last_block' = AllLastBlock(q.toBlock, c.block_number)
          /\ calls' = [calls EXCEPT ![p] =
                          [c EXCEPT !.queries = <<[q EXCEPT !.ok = TRUE]>>,
                                    !.result = getLogs(NodeBound(q.fromBlock, c.block_number),
                                                       NodeBound(q.toBlock, c.block_number)),
                                    !.pc = "returned"]]
    /\ lock' = lock + 1
    /\ archive' = {}
    /\ delivered' = {}
    /\ cursor_set_by' = "returned"
    /\ UNCHANGED <<filter_params, FILTER_MAX_BLOCK_RANGE>>
    /\ UNCHANGED rvars

\* The getLogs of get_all_entries raises.
AllFails(p) ==
    /\ calls[p].pc = "running"
    /\ calls[p].op = "get_all_entries"
    /\ calls' = [calls EXCEPT ![p] = [@ EXCEPT !.pc = "raised"]]
    /\ lock' = lock + 1
    /\ UNCHANGED <<filter_params, FILTER_MAX_BLOCK_RANGE, last_block, archive, delivered, cursor_set_by>>
    /\ UNCHANGED rvars

\* A greenlet calls get_new_entries or get_all_entries while another holds the
\* lock: it waits in "with self._lock".  Its argument is drawn when it enters.
Wait(p) ==
    /\ NotInCall(p)
    /\ ~CanAcquire
    /\ Enter(p, [IdleCall EXCEPT !.pc = "waiting"])
    /\ UNCHANGED <<filter_params, FILTER_MAX_BLOCK_RANGE, last_block, lock, cursor_set_by>>
    /\ UNCHANGED rvars

\* The heights the node may report for "latest" (one value when not asked).
Latest == IF FilterFromBlock \in Symbolic THEN Blocks ELSE {0}
Heights == Blocks \cup {NoneVal}
ChainHeight(height) == IF Truthy(height) THEN {0} ELSE Blocks

NextNew ==
    \E p \in Callers :
        \/ Wait(p)
        \/ \E target \in Blocks : \E latest \in Latest : NewBegin(p, target, latest)
        \/ \E target \in Blocks : NewResolveFails(p, target)
        \/ NewChunkOk(p)
        \/ NewChunkFails(p)

NextAll ==
    \E p \in Callers :
        \/ \E height \in Heights : \E h \in ChainHeight(height) : AllBegin(p, height, h)
        \/ \E height \in Heights : AllHeightFails(p, height)
        \/ AllOk(p)
        \/ AllFails(p)

Next == NextNew \/ NextAll

Spec == Init /\ [][Next]_vars

\* Only get_new_entries is called on the instance.
SpecNew == Init /\ [][NextNew]_vars

TypeOK ==
    /\ last_block \in -1..MaxBlock
    /\ lock \in 0..1
    /\ archive \subseteq Blocks
    /\ delivered \subseteq archive
    /\ cursor_set_by \in {"init", "running", "returned", "raised"}

----------------------------------------------------------------------------
(* raiden/blockchain/state.py *)

\* Block identifiers of a request to the node: the hash of a block, a block
\* number, or one of the names "latest" and "pending".
BlockHash(h) == [kind |-> "hash", id |-> h]
BlockNumberId(n) == [kind |-> "number", id |-> n]
BlockName(n) == [kind |-> "name", id |-> n]

\* The block the events were mined in, and the heights the caller may pass as
\* latest_confirmed_block.
EventBlockHash == 7
ConfirmedBlocks == {5, 6}

\* A DecodedEvent: event.originating_contract, event.chain_id and, of
\* event.event_data, block_hash and the args of its kind (the others "-").
DecodedEvent(contract, channel_identifier, p1, p2, sender, receiver, locksroot) ==
    [originating_contract |-> contract, chain_id |-> ChainID,
     block_hash |-> EventBlockHash, channel_identifier |-> channel_identifier,
     participant1 |-> p1, participant2 |-> p2,
     sender |-> sender, receiver |-> receiver, locksroot |-> locksroot]

\* The events about a channel identifier alone: ChannelSettled, ChannelClosed
\* and NonClosingBalanceProofUpdated.
ChannelEvents ==
    {DecodedEvent(tn, c, "-", "-", "-", "-", "-") : tn \in TokenNetworks, c \in ChannelIds}

\* The two addresses of a channel differ: the TokenNetwork contract opens no
\* channel of an address with itself.
AddressPairs == {ab \in Addresses \X Addresses : ab[1] # ab[2]}

\* ChannelOpened events.
ChannelNewEvents ==
    {DecodedEvent(tn, c, ab[1], ab[2], "-", "-", "-") :
        tn \in TokenNetworks, c \in ChannelIds, ab \in AddressPairs}

\* ChannelUnlocked events; they carry no channel identifier.
ChannelBatchUnlockEvents ==
    {DecodedEvent(tn, 0, "-", "-", ab[1], ab[2], "L1") :
        tn \in TokenNetworks, ab \in AddressPairs}

\* views.get_channelstate_by_canonical_identifier
get_channelstate_by_canonical_identifier(cs, canonical_identifier) ==
    LET k == <<canonical_identifier.token_network_address,
               canonical_identifier.channel_identifier>>
    IN IF k \in DOMAIN cs.channels THEN cs.channels[k] ELSE NoResult

\* views.get_token_network_by_address
get_token_network_by_address(cs, token_network_address) ==
    IF token_network_address \in cs.token_networks
    THEN [tag |-> "TokenNetworkState", address |-> token_network_address]
    ELSE NoResult

\* views.get_token_network_registry_by_token_network_address
get_token_network_registry_by_token_network_address(cs, token_network_address) ==
    IF token_network_address \in cs.token_networks
    THEN [tag |-> "TokenNetworkRegistryState", address |-> "REG"]
    ELSE NoResult

\* token_network_state.partneraddresses_to_channelidentifiers[partner]: the
\* identifiers recorded for the partner, none when the partner is not recorded.
channel_identifiers_for_partner(cs, token_network_address, partner) ==
    IF <<token_network_address, partner>> \in DOMAIN cs.partners
    THEN cs.partners[<<token_network_address, partner>>]
    ELSE << >>

\* What the node holds at a block: a participant's locksroot or deposit, the
\* channel's token.  The value is named by the block it was read at.
OnChain(what, who, block_identifier) ==
    [tag |-> "OnChain", what |-> what, who |-> who, at |-> block_identifier]

\* get_onchain_locksroots(..., block_identifier) when the node answers.
get_onchain_locksroots(participant1, participant2, block_identifier) ==
    <<OnChain("locksroot", participant1, block_identifier),
      OnChain("locksroot", participant2, block_identifier)>>

\* channel_proxy.detail(block_identifier) when the node answers; the proxy
\* is the one of the local node, so our_details are those of OurAddress.
ChannelDetail(p1, p2, block_identifier) ==
    LET partner == IF p1 = OurAddress THEN p2 ELSE p1
    IN [token_address |-> OnChain("token_address", "-", block_identifier),
        our_details |-> [address |-> OurAddress,
                         deposit |-> OnChain("deposit", OurAddress, block_identifier)],
        partner_details |-> [address |-> partner,
                             deposit |-> OnChain("deposit", partner, block_identifier)]]

\* The exceptions a request to the node may raise: ValueError when the
\* block's state is pruned, any other for a failure of the transport.
Exceptions == {"ValueError", "RPCError"}

\* The canonical identifier ChannelSettled, NonClosingBalanceProofUpdated and
\* ChannelClosed are looked up with.  Mutant: the token network is not the
\* event's.
EventCanonicalIdentifierOneNetwork(cs, event) ==
    CanonicalIdentifier(cs.chain_id, "TN1", event.channel_identifier)

EventCanonicalIdentifier(cs, event) ==
    CanonicalIdentifier(cs.chain_id, event.originating_contract, event.channel_identifier)

\* Mutant: no exception is taken for a pruned block.
IsPrunedNever(exception) == FALSE

\* except ValueError
IsPruned(exception) == exception = "ValueError"

\* block_identifier=block_hash of the first request
FirstBlockIdentifier(event) == BlockHash(event.block_hash)

\* Mutant: the fallback reads the node's latest block.
RetryBlockIdentifierLatest(latest_confirmed_block) == BlockName(LATEST)

\* block_identifier=latest_confirmed_block of the request after ValueError
RetryBlockIdentifier(latest_confirmed_block) == BlockNumberId(latest_confirmed_block)

\* A frame as a function of state.py is entered.
CallFrame(kind, cs, event, latest_confirmed_block) ==
    [IdleResolve EXCEPT !.kind = kind, !.event = event,
                        !.latest_confirmed_block = latest_confirmed_block,
                        !.chain_state_at_call = cs]

\* The step of a request that raises: ValueError at the first request leads
\* to the request at latest_confirmed_block, any other exception leaves the
\* function.
RequestRaises(exception) ==
    LET block_identifier == IF res.pc = "query" THEN FirstBlockIdentifier(res.event)
                            ELSE RetryBlockIdentifier(res.latest_confirmed_block)
        asked == Append(res.queries, [block_identifier |-> block_identifier,
                                      outcome |-> exception])
    IN IF res.pc = "query" /\ IsPruned(exception)
       THEN [res EXCEPT !.queries = asked, !.pc = "retry"]
       ELSE [res EXCEPT !.queries = asked, !.pc = "raised", !.error = exception]

\* The block identifier of the pending request.
PendingBlockIdentifier ==
    IF res.pc = "query" THEN FirstBlockIdentifier(res.event)
    ELSE RetryBlockIdentifier(res.latest_confirmed_block)

ChannelSettleState(canonical_identifier, our_locksroot, partner_locksroot) ==
    [tag |-> "ChannelSettleState", canonical_identifier |-> canonical_identifier,
     our_locksroot |-> our_locksroot, partner_locksroot |-> partner_locksroot]

\* get_contractreceivechannelsettled_data_from_event up to its first request.
SettledBegin(cs, event, latest_confirmed_block) ==
    /\ res.pc = "idle"
    /\ LET c == CallFrame("ChannelSettled", cs, event, latest_confirmed_block)
           channel_state ==
               get_channelstate_by_canonical_identifier(cs, EventCanonicalIdentifier(cs, event))
       IN res' = IF channel_state = NoResult
                 THEN [c EXCEPT !.pc = "returned", !.result = NoResult]
                 ELSE [c EXCEPT !.pc = "query", !.channel_state = channel_state]
    /\ chain_state' = cs
    /\ storage' = {}
    /\ UNCHANGED fvars

\* get_onchain_locksroots answers, at the event's block or at the latest
\* confirmed block: ChannelSettleState is returned.
SettledAnswer ==
    /\ res.kind = "ChannelSettled"
    /\ res.pc \in {"query", "retry"}
    /\ LET block_identifier == PendingBlockIdentifier
           locksroots == get_onchain_locksroots(res.channel_state.our_address,
                                                res.channel_state.partner_address,
                                                block_identifier)
       IN res' = [res EXCEPT
                     !.queries = Append(@, [block_identifier |-> block_identifier,
                                            outcome |-> "ok"]),
                     !.pc = "returned",
                     !.result = ChannelSettleState(
                                    EventCanonicalIdentifier(chain_state, res.event),
                                    locksroots[1], locksroots[2])]
    /\ UNCHANGED <<fvars, chain_state, storage>>

\* get_onchain_locksroots raises.
SettledRaises(exception) ==
    /\ res.kind = "ChannelSettled"
    /\ res.pc \in {"query", "retry"}
    /\ res' = RequestRaises(exception)
    /\ UNCHANGED <<fvars, chain_state, storage>>

NewChannelDetails(event, registry, channel_details) ==
    [tag |-> "NewChannelDetails",
     chain_id |-> event.chain_id,
     payment_network_address |-> registry.address,
     token_address |-> channel_details.token_address,
     our_address |-> channel_details.our_details.address,
     our_initial_balance |-> channel_details.our_details.deposit,
     partner_address |-> channel_details.partner_details.address,
     partner_initial_balance |-> channel_details.partner_details.deposit]

\* chain_state.our_address in (participant1, participant2)
IsParticipant(cs, event) == cs.our_address \in {event.participant1, event.participant2}

\* token_network_registry is not None
RegistryFound(registry) == registry # NoResult

\* Mutant: an event of a token network without registry is ignored.
RegistryMissingIgnored(c) == [c EXCEPT !.pc = "returned", !.result = NoResult]

\* assert token_network_registry is not None, "Token network missing", failing
RegistryMissing(c) == [c EXCEPT !.pc = "raised", !.error = "AssertionError"]

\* get_contractreceivechannelnew_data_from_event up to its first request
\* (chain_service.payment_channel builds the proxy and asks nothing).
ChannelNewBegin(cs, event, latest_confirmed_block) ==
    /\ res.pc = "idle"
    /\ LET c == CallFrame("ChannelNew", cs, event, latest_confirmed_block)
       IN res' = IF ~IsParticipant(cs, event)
                 THEN [c EXCEPT !.pc = "returned", !.result = NoResult]
                 ELSE [c EXCEPT !.pc = "query"]
    /\ chain_state' = cs
    /\ storage' = {}
    /\ UNCHANGED fvars

\* channel_proxy.detail answers, at the event's block or at the latest
\* confirmed block: the registry is looked up and asserted, and
\* NewChannelDetails is returned.
ChannelNewAnswer ==
    /\ res.kind = "ChannelNew"
    /\ res.pc \in {"query", "retry"}
    /\ LET block_identifier == PendingBlockIdentifier
           channel_details == ChannelDetail(res.event.participant1,
                                            res.event.participant2, block_identifier)
           registry == get_token_network_registry_by_token_network_address(
                           chain_state, res.event.originating_contract)
           asked == Append(res.queries, [block_identifier |-> block_identifier,
                                         outcome |-> "ok"])
       IN res' = IF RegistryFound(registry)
                 THEN [res EXCEPT !.queries = asked, !.pc = "returned",
                                  !.result = NewChannelDetails(res.event, registry,
                                                               channel_details)]
                 ELSE RegistryMissing([res EXCEPT !.queries = asked])
    /\ UNCHANGED <<fvars, chain_state, storage>>

\* channel_proxy.detail raises.
ChannelNewRaises(exception) ==
    /\ res.kind = "ChannelNew"
    /\ res.pc \in {"query", "retry"}
    /\ res' = RequestRaises(exception)
    /\ UNCHANGED <<fvars, chain_state, storage>>

\* get_contractreceiveupdatetransfer_data_from_event
UpdateTransferCall(cs, event) ==
    /\ res.pc = "idle"
    /\ res' = [CallFrame("UpdateTransfer", cs, event, 0) EXCEPT
                  !.pc = "returned",
                  !.result = get_channelstate_by_canonical_identifier(
                                 cs, EventCanonicalIdentifier(cs, event))]
    /\ chain_state' = cs
    /\ storage' = {}
    /\ UNCHANGED fvars

\* get_contractreceivechannelclosed_data_from_event
ChannelClosedCall(cs, event) ==
    /\ res.pc = "idle"
    /\ LET channel_state == get_channelstate_by_canonical_identifier(
                                cs, EventCanonicalIdentifier(cs, event))
       IN res' = [CallFrame("ChannelClosed", cs, event, 0) EXCEPT
                     !.pc = "returned",
                     !.result = IF channel_state # NoResult
                                THEN channel_state.canonical_identifier
                                ELSE NoResult]
    /\ chain_state' = cs
    /\ storage' = {}
    /\ UNCHANGED fvars

\* The records of st of one kind with a balance proof of the channel, the
\* locksroot and the address.
BalanceProofRecords(st, kind, canonical_identifier, locksroot, address) ==
    {r \in st : /\ r.kind = kind
                /\ r.token_network_address = canonical_identifier.token_network_address
                /\ r.channel_identifier = canonical_identifier.channel_identifier
                /\ r.locksroot = locksroot
                /\ r.address = address}

\* The record a search returns: record.data.balance_proof.canonical_identifier
\* is the identifier searched for.
FoundRecord(found, canonical_identifier) ==
    IF found = {} THEN NoResult
    ELSE [tag |-> "Record", canonical_identifier |-> canonical_identifier]

\* storage.restore.get_state_change_with_balance_proof_by_locksroot
get_state_change_with_balance_proof_by_locksroot(st, canonical_identifier, locksroot, sender) ==
    FoundRecord(BalanceProofRecords(st, "state_change", canonical_identifier,
                                    locksroot, sender),
                canonical_identifier)

\* storage.restore.get_event_with_balance_proof_by_locksroot
get_event_with_balance_proof_by_locksroot(st, canonical_identifier, locksroot, recipient) ==
    FoundRecord(BalanceProofRecords(st, "event", canonical_identifier,
                                    locksroot, recipient),
                canonical_identifier)

\* Mutant: the two searches are swapped.
LookupKindSwapped(partner, event) ==
    IF partner = event.sender THEN "event"
    ELSE IF partner = event.receiver THEN "state_change"
    ELSE "none"

\* if partner == args["sender"]: ... elif partner == args["receiver"]: ...
LookupKind(partner, event) ==
    IF partner = event.sender THEN "state_change"
    ELSE IF partner = event.receiver THEN "event"
    ELSE "none"

\* Mutant: every other identifier is visited.
NextIdentifierSkips(next) == next + 2

\* for channel_identifier in channel_identifiers
NextIdentifier(next) == next + 1

\* if state_change_record is not None / if event_record is not None
RecordFound(record) == record # NoResult

\* Mutant: an unresolved unlock is returned as None.
ResolvedAlways(canonical_identifier) == TRUE

\* assert canonical_identifier is not None, msg
Resolved(canonical_identifier) == canonical_identifier # NoResult

\* The partner of the unlock: the sender when the node is the receiver, the
\* receiver when the node is the sender, "-" when it is neither.
UnlockPartner(cs, event) ==
    LET participant1 == event.receiver
        participant2 == event.sender
    IN IF participant1 = cs.our_address THEN participant2
       ELSE IF participant2 = cs.our_address THEN participant1
       ELSE "-"

\* The end of the function after the loop over no, or no further, identifier:
\* nothing was found.
UnlockUnresolved(c) ==
    IF Resolved(NoResult) THEN [c EXCEPT !.pc = "returned", !.result = NoResult]
    ELSE [c EXCEPT !.pc = "raised", !.error = "AssertionError"]

\* get_contractreceivechannelbatchunlock_data_from_event up to its first
\* search of the storage.
UnlockFrame(cs, event) ==
    LET c == CallFrame("ChannelBatchUnlock", cs, event, 0)
        token_network_address == event.originating_contract
        token_network_state == get_token_network_by_address(cs, token_network_address)
        partner == UnlockPartner(cs, event)
        channel_identifiers ==
            channel_identifiers_for_partner(cs, token_network_address, partner)
        d == [c EXCEPT !.partner = partner, !.channel_identifiers = channel_identifiers]
    IN IF token_network_state = NoResult
       THEN [c EXCEPT !.pc = "raised", !.error = "AssertionError"]
       ELSE IF partner = "-"
       THEN [c EXCEPT !.pc = "returned", !.result = NoResult]
       ELSE IF channel_identifiers = << >>
       THEN UnlockUnresolved(d)
       ELSE [d EXCEPT !.pc = "lookup"]

\* Mutant: the partner is recorded in partneraddresses_to_channelidentifiers
\* when its identifiers are read.
UnlockBeginRecordsPartner(cs, st, event) ==
    /\ res.pc = "idle"
    /\ res' = UnlockFrame(cs, event)
    /\ LET k == <<event.originating_contract, UnlockPartner(cs, event)>>
       IN chain_state' =
              IF res'.partner = "-" THEN cs
              ELSE [cs EXCEPT !.partners =
                       [j \in DOMAIN cs.partners \cup {k} |->
                           IF j \in DOMAIN cs.partners THEN cs.partners[j] ELSE << >>]]
    /\ storage' = st
    /\ UNCHANGED fvars

UnlockBegin(cs, st, event) ==
    /\ res.pc = "idle"
    /\ res' = UnlockFrame(cs, event)
    /\ chain_state' = cs
    /\ storage' = st
    /\ UNCHANGED fvars

\* One turn of the loop: the storage is searched for the next identifier.  A
\* record ends the function with its canonical identifier; after the last
\* identifier the assertion fails.
UnlockLookup ==
    /\ res.kind = "ChannelBatchUnlock"
    /\ res.pc = "lookup"
    /\ LET channel_identifier == res.channel_identifiers[res.next]
           canonical_identifier ==
               CanonicalIdentifier(chain_state.chain_id, res.event.originating_contract,
                                   channel_identifier)
           kind == LookupKind(res.partner, res.event)
           record ==
               IF kind = "state_change"
               THEN get_state_change_with_balance_proof_by_locksroot(
                        storage, canonical_identifier, res.event.locksroot, res.partner)
               ELSE IF kind = "event"
               THEN get_event_with_balance_proof_by_locksroot(
                        storage, canonical_identifier, res.event.locksroot, res.partner)
               ELSE NoResult
           c == [res EXCEPT !.lookups =
                     IF kind = "none" THEN @
                     ELSE Append(@, [kind |-> kind,
                                     channel_identifier |-> channel_identifier,
                                     address |-> res.partner,
                                     found |-> record # NoResult])]
       IN res' = IF RecordFound(record)
                 THEN [c EXCEPT !.pc = "returned", !.result = record.canonical_identifier]
                 ELSE IF NextIdentifier(res.next) > Len(res.channel_identifiers)
                 THEN UnlockUnresolved(c)
                 ELSE [c EXCEPT !.next = NextIdentifier(res.next)]
    /\ UNCHANGED <<fvars, chain_state, storage>>

\* The filter the functions of state.py run beside: it is not called.
FilterIdle ==
    /\ filter_params = [fromBlock |-> NoneVal, toBlock |-> NoneVal]
    /\ FILTER_MAX_BLOCK_RANGE = 1
    /\ last_block = -1
    /\ lock = 1
    /\ calls = [p \in Callers |-> IdleCall]
    /\ archive = {}
    /\ delivered = {}
    /\ cursor_set_by = "init"

InitResolve == FilterIdle /\ NoCall

\* No function was entered yet: the arguments of the call are drawn.
NotCalled == res.pc = "idle"

NextSettled ==
    \/ /\ NotCalled
       /\ \E cs \in ChainStates : \E event \in ChannelEvents : \E b \in ConfirmedBlocks :
              SettledBegin(cs, event, b)
    \/ SettledAnswer
    \/ \E exception \in Exceptions : SettledRaises(exception)

NextChannelNew ==
    \/ /\ NotCalled
       /\ \E cs \in ChainStates : \E event \in ChannelNewEvents : \E b \in ConfirmedBlocks :
              ChannelNewBegin(cs, event, b)
    \/ ChannelNewAnswer
    \/ \E exception \in Exceptions : ChannelNewRaises(exception)

NextIdentity ==
    \/ /\ NotCalled
       /\ \E cs \in ChainStates : \E event \in ChannelEvents : UpdateTransferCall(cs, event)
    \/ /\ NotCalled
       /\ \E cs \in ChainStates : \E event \in ChannelEvents : ChannelClosedCall(cs, event)

NextUnlock ==
    \/ /\ NotCalled
       /\ \E cs \in ChainStatesWith(ChannelIds) : \E st \in Storages :
              \E event \in ChannelBatchUnlockEvents : UnlockBegin(cs, st, event)
    \/ UnlockLookup

NextResolve == NextSettled \/ NextChannelNew \/ NextIdentity \/ NextUnlock

\* One call of one function of state.py.
SpecResolve == InitResolve /\ [][NextResolve]_vars

\* One call of get_contractreceivechannelbatchunlock_data_from_event.
SpecUnlock == InitResolve /\ [][NextUnlock]_vars

----------------------------------------------------------------------------
(* Properties of StatelessFilter. *)

\* The frames of get_new_entries calls, running or just ended.
NewCalls == {p \in Callers : calls[p].op = "get_new_entries"}

\* The frames of get_all_entries calls, running or just ended.
AllCalls == {p \in Callers : calls[p].op = "get_all_entries"}

\* The blocks of the inclusive range of the i-th getLogs request of frame c.
QueryBlocks(c, i) == c.queries[i].fromBlock..c.queries[i].toBlock

\* The blocks covered by the getLogs requests of frame c.
QueriedBlocks(c) == UNION {QueryBlocks(c, i) : i \in 1..Len(c.queries)}

\* C1: within one get_new_entries call the chunk ranges are contiguous and
\* do not overlap (each fromBlock is the previous toBlock + 1) and no log
\* entry is returned twice.
C1_ChunksContiguous ==
    \A p \in NewCalls :
        LET c == calls[p] IN
        /\ \A i \in 1..(Len(c.queries) - 1) :
               c.queries[i + 1].fromBlock = c.queries[i].toBlock + 1
        /\ \A i, j \in 1..Len(c.result) : i # j => c.result[i] # c.result[j]

\* C2: a get_new_entries call that fails at some chunk leaves the cursor
\* where it was when the call started.
C2_FailedCallKeepsCursor ==
    \A p \in NewCalls :
        calls[p].pc = "raised" => last_block = calls[p].start_block

\* C3 as claimed: the cursor never decreases, whatever is called.
C3_CursorNeverDecreases == [][last_block' >= last_block]_vars

\* C3: the cursor never decreases in a step of get_new_entries, ended well or
\* not; it decreases only in a step in which a get_all_entries call returns,
\* which sets it to the resolved toBlock or to the height whatever it was.
C3_CursorDecreasesOnlyByGetAll ==
    [][last_block' < last_block =>
          \E p \in AllCalls : calls[p].pc = "running" /\ calls'[p].pc = "returned"]_vars

\* C3 witness: a get_new_entries call that failed after it had moved a cursor
\* that an earlier call had set.
C3_Witness ==
    \E p \in NewCalls :
        /\ calls[p].pc = "raised"
        /\ calls[p].start_block >= 0
        /\ last_block > calls[p].start_block

\* ceil(a / b) for a >= 0, b >= 1.
CeilDiv(a, b) == (a + b - 1) \div b

\* C4: every chunk query spans at most FILTER_MAX_BLOCK_RANGE blocks, and a
\* call that returns and whose range holds R >= 1 blocks (those above the
\* cursor, from the filter's fromBlock on, up to the target) issued
\* ceil(R / FILTER_MAX_BLOCK_RANGE) queries.
C4_ChunkSizeAndCount ==
    \A p \in NewCalls :
        LET c == calls[p]
            R == c.arg - Max(c.filter_from_number, c.start_block + 1) + 1
        IN /\ \A i \in 1..Len(c.queries) :
                  Cardinality(QueryBlocks(c, i)) <= FILTER_MAX_BLOCK_RANGE
           /\ (c.pc = "returned" /\ R >= 1) =>
                  Len(c.queries) = CeilDiv(R, FILTER_MAX_BLOCK_RANGE)

RECURSIVE ChunkResults(_, _)
\* What the node answers to the first n requests of frame c, in request order.
ChunkResults(c, n) ==
    IF n = 0 THEN << >>
    ELSE ChunkResults(c, n - 1) \o getLogs(c.queries[n].fromBlock, c.queries[n].toBlock)

\* The requests of frame c are issued in strictly ascending block order, its
\* result is the concatenation of the answers in that order, and the entries
\* of the result are in non-decreasing block order.
AscendingConcatenated(c) ==
    /\ \A i \in 1..(Len(c.queries) - 1) :
           /\ c.queries[i].fromBlock < c.queries[i + 1].fromBlock
           /\ c.queries[i].toBlock <= c.queries[i + 1].toBlock
    /\ c.result = ChunkResults(c, Len(c.queries))
    /\ \A i \in 1..(Len(c.result) - 1) : c.result[i] <= c.result[i + 1]

\* C5 as claimed: a get_new_entries(target) call that returns, started with a
\* cursor c < target that an earlier successful call had set, queried exactly
\* the blocks c+1..target, in ascending order, and returns the answers
\* concatenated.
C5_QueriesCursorToTarget ==
    \A p \in NewCalls :
        LET c == calls[p] IN
        (c.pc = "returned" /\ c.start_block < c.arg /\ c.start_set_by = "returned") =>
            /\ QueriedBlocks(c) = (c.start_block + 1)..c.arg
            /\ AscendingConcatenated(c)

\* C5: a get_new_entries(target) call that returns, started with cursor
\* c < target, queried exactly the blocks max(F, c+1)..target, F the filter's
\* fromBlock as resolved at the call (which is c+1..target when F <= c+1), in
\* ascending order, and returns the answers concatenated.
C5_QueriesFromBlockToTarget ==
    \A p \in NewCalls :
        LET c == calls[p] IN
        (c.pc = "returned" /\ c.start_block < c.arg) =>
            /\ QueriedBlocks(c) = Max(c.filter_from_number, c.start_block + 1)..c.arg
            /\ AscendingConcatenated(c)

\* C5 witness: such a call, of several chunks, returned after an earlier
\* successful call.
C5_Witness ==
    \E p \in NewCalls :
        /\ calls[p].pc = "returned"
        /\ calls[p].start_set_by = "returned"
        /\ 0 <= calls[p].start_block
        /\ calls[p].start_block < calls[p].arg
        /\ Len(calls[p].queries) >= 2

\* The call of frame c issued no getLogs request, returned the empty list and
\* left the cursor as it was.
NothingFetched(c) ==
    /\ c.queries = << >>
    /\ c.result = << >>
    /\ last_block = c.start_block

\* C6 as claimed: for every filter and every h above the cursor, the cursor
\* is h after a successful get_new_entries(h); and a get_new_entries(h') with
\* h' not above the cursor returns [] without a query or a cursor change.
C6_CursorIsTargetAfterSuccess ==
    \A p \in NewCalls :
        LET c == calls[p] IN
        c.pc = "returned" =>
            /\ c.arg > c.start_block => last_block = c.arg
            /\ c.arg <= c.start_block => NothingFetched(c)

\* C6: after a successful get_new_entries(h) with h above the cursor and not
\* below the filter's resolved fromBlock the cursor is h; with h below that
\* fromBlock, or with h not above the cursor (as in a second call with the
\* same or a lower h), the call returns [] without a query or a cursor change.
C6_CursorIsTargetWhenInRange ==
    \A p \in NewCalls :
        LET c == calls[p] IN
        c.pc = "returned" =>
            /\ (c.arg > c.start_block /\ c.arg >= c.filter_from_number) =>
                   last_block = c.arg
            /\ (c.arg <= c.start_block \/ c.arg < c.filter_from_number) =>
                   NothingFetched(c)

\* C6 witness: a call that follows a successful one, with a target that is
\* not above the cursor that one left.
C6_Witness ==
    \E p \in NewCalls :
        /\ calls[p].pc = "returned"
        /\ calls[p].start_set_by = "returned"
        /\ 0 <= calls[p].arg
        /\ calls[p].arg <= calls[p].start_block
        /\ calls[p].start_block \in archive

\* The filter was built with a number as fromBlock.
NumericFromBlock == filter_params.fromBlock \in Blocks

\* The frame of the first get_new_entries call on a filter whose cursor no
\* call has written.
FirstCall(c) == c.op = "get_new_entries" /\ c.start_set_by = "init"

\* C7 as claimed: with a numeric fromBlock f the first get_new_entries(target)
\* queries exactly the blocks above max(f, -1), where the claim has the cursor
\* start, up to the target: the range (max(f, -1), target].
C7_FirstCallQueriesAboveFromBlock ==
    NumericFromBlock =>
        \A p \in Callers :
            (FirstCall(calls[p]) /\ calls[p].pc = "returned") =>
                QueriedBlocks(calls[p]) =
                    (Max(filter_params.fromBlock, -1) + 1)..calls[p].arg

\* C7: with a numeric fromBlock f (>= 0) the cursor starts at -1, and the
\* first get_new_entries(target) queries exactly the blocks f..target, block
\* f included.
C7_FirstCallQueriesFromFromBlock ==
    NumericFromBlock =>
        /\ cursor_set_by = "init" => last_block = -1
        /\ \A p \in Callers :
               (FirstCall(calls[p]) /\ calls[p].pc = "returned") =>
                   QueriedBlocks(calls[p]) = filter_params.fromBlock..calls[p].arg

\* C7 witness: a first call on a filter with a positive fromBlock that
\* fetched up to a target above it.
C7_Witness ==
    \E p \in Callers :
        /\ NumericFromBlock
        /\ FirstCall(calls[p])
        /\ calls[p].pc = "returned"
        /\ 0 < filter_params.fromBlock
        /\ filter_params.fromBlock < calls[p].arg
        /\ Len(calls[p].queries) >= 1

\* The greenlets inside the with block of get_new_entries or get_all_entries.
InLock == {p \in Callers : calls[p].pc = "running"}

\* C8: at most one call is between acquiring and releasing the lock, the lock
\* is held from a call's first request to its last, and while a call holds
\* it no step of another greenlet issues a request or writes the cursor: the
\* cursor and the requests change only in the holder's own frame.
C8_OneCallHoldsTheLock ==
    [][/\ Cardinality(InLock) <= 1
       /\ lock = 1 - Cardinality(InLock)
       /\ Cardinality(InLock') <= 1
       /\ \A p \in InLock :
              /\ last_block' # last_block => calls'[p].queries # calls[p].queries
              /\ \A q \in Callers \ {p} :
                     /\ calls'[q].pc # "running"
                     /\ Len(calls'[q].queries) <= Len(calls[q].queries)]_vars

\* C8 witness: a get_new_entries call between two of its chunks, holding the
\* lock, while the other greenlet waits for it.
C8_Witness ==
    \E p, q \in Callers :
        /\ calls[p].pc = "running"
        /\ calls[p].op = "get_new_entries"
        /\ Len(calls[p].queries) >= 1
        /\ calls[q].pc = "waiting"
        /\ lock = 0

\* The blocks of the getLogs request a running get_new_entries frame c has
\* pending.
PendingBlocks(c) ==
    IF c.op = "get_new_entries" /\ c.pc = "running"
    THEN c.from_block_number..ToBlock(c.from_block_number, c.arg)
    ELSE {}

\* C9 as claimed, the requests that raised included: the first getLogs request
\* of a get_new_entries call that begins covers no block of the requests,
\* answered or raised, of the get_new_entries calls that ended before it.
C9_CallsRequestDisjointBlocks ==
    [][\A p \in Callers :
           (AtLock(p) /\ calls'[p].pc = "running") =>
               \A q \in {r \in NewCalls : NotInCall(r)} :
                   PendingBlocks(calls'[p]) \cap QueriedBlocks(calls[q]) = {}]_vars

\* C9: no block is in the answered getLogs ranges of two different
\* get_new_entries calls, whether they returned, failed or still run (the
\* range of a request that raised is requested again by the next call).
C9_CallsQueryDisjointBlocks ==
    /\ \A p \in NewCalls : AnsweredBlocks(calls[p]) \cap archive = {}
    /\ \A p, q \in NewCalls :
           p # q => AnsweredBlocks(calls[p]) \cap AnsweredBlocks(calls[q]) = {}

\* C9 witness: a call fetches blocks after an earlier call fetched some and
\* then failed at a later chunk, while the other greenlet waits for the lock.
C9_Witness ==
    \E p \in NewCalls : \E q \in Callers :
        /\ calls[p].pc = "running"
        /\ calls[p].start_set_by = "raised"
        /\ AnsweredBlocks(calls[p]) # {}
        /\ archive # {}
        /\ calls[q].pc = "waiting"

\* C10: a returned get_all_entries(height) with height >= 0 leaves the cursor
\* at height when the filter's toBlock is symbolic (the request then carries
\* toBlock = height) or absent, and at t when toBlock is the number t, 0
\* included; the chain height is read only when no height is passed; a
\* get_all_entries that raised leaves the cursor as it found it.
C10_GetAllEntriesCursor ==
    \A p \in AllCalls :
        LET c == calls[p]
            t == filter_params.toBlock
        IN /\ c.height_queried <=> c.arg = NoneVal
           /\ (c.pc = "returned" /\ c.arg # NoneVal) =>
                  /\ t \in Symbolic => (c.queries[1].toBlock = c.arg /\ last_block = c.arg)
                  /\ t \in Blocks => last_block = t
                  /\ t = NoneVal => last_block = c.arg
           /\ c.pc = "raised" => last_block = c.start_block

----------------------------------------------------------------------------
(* Properties of the functions of raiden/blockchain/state.py. *)

\* The function returned or raised.
Ended == res.pc \in {"returned", "raised"}

\* The function is one of the two that ask the node.
AsksNode == res.kind \in {"ChannelSettled", "ChannelNew"}

\* Every on-chain value of a returned ChannelSettleState or NewChannelDetails
\* was read at block_identifier.
BuiltAt(result, block_identifier) ==
    IF result.tag = "ChannelSettleState"
    THEN /\ result.our_locksroot.at = block_identifier
         /\ result.partner_locksroot.at = block_identifier
    ELSE IF result.tag = "NewChannelDetails"
    THEN /\ result.token_address.at = block_identifier
         /\ result.our_initial_balance.at = block_identifier
         /\ result.partner_initial_balance.at = block_identifier
    ELSE FALSE

\* The token network registry of the event's token network is recorded in
\* the chain state.
RegistryRecorded == res.event.originating_contract \in chain_state.token_networks

\* The requests of an ended call: the first is at the event's block hash; when
\* it answered there is no second; when it raised ValueError there is exactly
\* one more, at latest_confirmed_block, and when that one raised the call
\* raised its exception.
OneRetryAtConfirmedBlock ==
    LET first == res.queries[1]
        n == Len(res.queries)
    IN /\ first.block_identifier = BlockHash(res.event.block_hash)
       /\ first.outcome = "ok" => n = 1
       /\ first.outcome = "ValueError" =>
              /\ n = 2
              /\ res.queries[2].block_identifier =
                     BlockNumberId(res.latest_confirmed_block)
              /\ res.queries[2].outcome # "ok" =>
                     (res.pc = "raised" /\ res.error = res.queries[2].outcome)

\* The first request raised ValueError and the request at
\* latest_confirmed_block answered.
RetryAnswered ==
    /\ Len(res.queries) = 2
    /\ res.queries[1].outcome = "ValueError"
    /\ res.queries[2].outcome = "ok"

\* C11 as claimed: in the ChannelSettled and ChannelNew functions a first
\* request that raises ValueError (pruned block) is followed by exactly one
\* request at latest_confirmed_block; if that answers, the function returns a
\* result, not None, built from its values; if it raises, the exception
\* leaves the function and there is no third request; a first request that
\* answers is followed by no other.
C11_RetryResultReturned ==
    (AsksNode /\ Ended /\ res.queries # << >>) =>
        /\ OneRetryAtConfirmedBlock
        /\ RetryAnswered =>
               (res.pc = "returned" /\ BuiltAt(res.result, res.queries[2].block_identifier))

\* C11: as above, but the ChannelNew function returns the result of the
\* request at latest_confirmed_block only when the token network registry of
\* the event's token network is recorded; when it is not, the function raises
\* the AssertionError after that request.
C11_RetryResultReturnedIfRegistry ==
    (AsksNode /\ Ended /\ res.queries # << >>) =>
        /\ OneRetryAtConfirmedBlock
        /\ RetryAnswered =>
               IF res.kind = "ChannelSettled" \/ RegistryRecorded
               THEN /\ res.pc = "returned"
                    /\ BuiltAt(res.result, res.queries[2].block_identifier)
               ELSE res.pc = "raised" /\ res.error = "AssertionError"

C11_Witness ==
    /\ res.kind = "ChannelNew"
    /\ RetryAnswered
    /\ res.pc = "returned"
    /\ res.result.tag = "NewChannelDetails"
    /\ res.result.our_initial_balance.at = BlockNumberId(res.latest_confirmed_block)

\* The block identifiers of confirmed blocks a call may ask the node at: the
\* hash of the event's block and the latest_confirmed_block it was passed.
ConfirmedIdentifiers ==
    {BlockHash(res.event.block_hash), BlockNumberId(res.latest_confirmed_block)}

\* The requests that answered.
AnsweredRequests == {i \in 1..Len(res.queries) : res.queries[i].outcome = "ok"}

\* C12: every request to the node, made or being made, is at the event's
\* block hash or at latest_confirmed_block, never at a named block such as
\* "latest" or "pending"; and the on-chain values of a returned
\* ChannelSettleState or NewChannelDetails are those of the last request that
\* answered.
C12_ConfirmedBlocksOnly ==
    /\ \A i \in 1..Len(res.queries) :
           /\ res.queries[i].block_identifier \in ConfirmedIdentifiers
           /\ res.queries[i].block_identifier.kind # "name"
    /\ res.pc \in {"query", "retry"} => PendingBlockIdentifier \in ConfirmedIdentifiers
    /\ (res.pc = "returned" /\ res.result.tag \in {"ChannelSettleState", "NewChannelDetails"}) =>
           /\ AnsweredRequests # {}
           /\ \A i \in AnsweredRequests :
                  (\A j \in AnsweredRequests : j <= i) =>
                      BuiltAt(res.result, res.queries[i].block_identifier)

C12_Witness ==
    /\ res.kind = "ChannelSettled"
    /\ res.pc = "returned"
    /\ Len(res.queries) = 2
    /\ res.result.tag = "ChannelSettleState"
    /\ res.result.partner_locksroot.at = BlockNumberId(res.latest_confirmed_block)

\* The local node is none of the two addresses of the ChannelNew or
\* ChannelBatchUnlock event the call was made for.
StrangersEvent ==
    \/ /\ res.kind = "ChannelNew"
       /\ chain_state.our_address \notin {res.event.participant1, res.event.participant2}
    \/ /\ res.kind = "ChannelBatchUnlock"
       /\ chain_state.our_address \notin {res.event.sender, res.event.receiver}

\* C13: for a ChannelNew or ChannelBatchUnlock event with neither address the
\* local node's, whatever the chain state, the function returns None: it does
\* not raise, asks the node nothing and searches no history.
C13_StrangersEventIgnored ==
    StrangersEvent =>
        /\ res.pc = "returned"
        /\ res.result = NoResult
        /\ res.queries = << >>
        /\ res.lookups = << >>

\* The key of the event's channel in channelidentifiers_to_channels.
EventChannelKey == <<res.event.originating_contract, res.event.channel_identifier>>

\* The chain state holds the channel of the event's canonical identifier.
ChannelPresent == EventChannelKey \in DOMAIN chain_state.channels

\* C14: a ChannelSettled, ChannelClosed or NonClosingBalanceProofUpdated event
\* whose channel (chain id, event's contract, channel_identifier) the chain
\* state does not hold returns None with no error and no request to the node;
\* with the channel held, ChannelClosed returns the channel's canonical
\* identifier and UpdateTransfer the channel state as held, with no request.
C14_IdentityResolvers ==
    (res.kind \in {"ChannelSettled", "ChannelClosed", "UpdateTransfer"}) =>
        /\ ~ChannelPresent =>
               (res.pc = "returned" /\ res.result = NoResult /\ res.queries = << >>)
        /\ (ChannelPresent /\ res.kind = "ChannelClosed") =>
               /\ res.pc = "returned"
               /\ res.result = chain_state.channels[EventChannelKey].canonical_identifier
               /\ res.result = CanonicalIdentifier(chain_state.chain_id,
                                                   res.event.originating_contract,
                                                   res.event.channel_identifier)
               /\ res.queries = << >>
        /\ (ChannelPresent /\ res.kind = "UpdateTransfer") =>
               /\ res.pc = "returned"
               /\ res.result = chain_state.channels[EventChannelKey]
               /\ res.queries = << >>

C14_Witness ==
    /\ res.kind = "ChannelClosed"
    /\ ChannelPresent
    /\ res.event.originating_contract = "TN2"
    /\ res.result.tag = "CanonicalIdentifier"
    /\ res.result.token_network_address = "TN2"

\* The local node is the unlock's sender or receiver.
OurUnlock ==
    /\ res.kind = "ChannelBatchUnlock"
    /\ chain_state.our_address \in {res.event.sender, res.event.receiver}

\* The partner of our unlock, and the history its balance proof is in: the
\* state changes when the partner sent the unlock, the events when it
\* received it.
PartnerOfUnlock ==
    IF res.event.receiver = chain_state.our_address THEN res.event.sender
    ELSE res.event.receiver

HistoryOfUnlock ==
    IF PartnerOfUnlock = res.event.sender THEN "state_change" ELSE "event"

\* The channel identifiers recorded for the partner, in their order.
Candidates ==
    LET k == <<res.event.originating_contract, PartnerOfUnlock>>
    IN IF k \in DOMAIN chain_state.partners THEN chain_state.partners[k] ELSE << >>

\* The positions of the candidates with a matching record in the storage.
MatchingCandidates ==
    {i \in 1..Len(Candidates) :
        \E r \in storage :
            /\ r.kind = HistoryOfUnlock
            /\ r.token_network_address = res.event.originating_contract
            /\ r.channel_identifier = Candidates[i]
            /\ r.locksroot = res.event.locksroot
            /\ r.address = PartnerOfUnlock}

\* C15: an unlock of the local node for which no candidate identifier of the
\* partner has a matching record, the partner having no candidate included,
\* ends in the AssertionError: it returns neither None nor an identifier.
C15_UnresolvedUnlockRaises ==
    (OurUnlock /\ Ended /\ MatchingCandidates = {}) =>
        (res.pc = "raised" /\ res.error = "AssertionError")

C15_Witness ==
    /\ OurUnlock
    /\ res.pc = "raised"
    /\ Len(Candidates) = 2
    /\ Len(res.lookups) = 2
    /\ storage # {}

\* The canonical identifier of the candidate at position i.
CandidateIdentifier(i) ==
    CanonicalIdentifier(chain_state.chain_id, res.event.originating_contract,
                        Candidates[i])

\* C16: when exactly one candidate identifier of the partner has a matching
\* record, the function returns the canonical identifier of that channel,
\* in whichever order the candidates are recorded (the chain states of the
\* model hold every order of every set of identifiers).
C16_OnlyMatchWinsInAnyOrder ==
    (OurUnlock /\ Ended /\ Cardinality(MatchingCandidates) = 1) =>
        /\ res.pc = "returned"
        /\ \A i \in MatchingCandidates : res.result = CandidateIdentifier(i)

C16_Witness ==
    /\ OurUnlock
    /\ res.pc = "returned"
    /\ Len(Candidates) = 2
    /\ MatchingCandidates = {2}
    /\ res.result.tag = "CanonicalIdentifier"
    /\ res.result.channel_identifier = Candidates[2]

\* The local node is a participant of the ChannelNew event and the chain
\* state records no token network registry for the event's token network.
OurChannelWithoutRegistry ==
    /\ res.kind = "ChannelNew"
    /\ chain_state.our_address \in {res.event.participant1, res.event.participant2}
    /\ ~RegistryRecorded

\* C17 as claimed: the ChannelNew function called for a channel of the local
\* node in a token network without recorded registry ends in the
\* AssertionError, and returns neither None nor NewChannelDetails.
C17_MissingRegistryAsserted ==
    (OurChannelWithoutRegistry /\ Ended) =>
        (res.pc = "raised" /\ res.error = "AssertionError")

\* C17: that call never returns; it ends in the AssertionError once a request
\* to the node answered, and in the exception of the request when the first
\* request raised another exception than ValueError or the second raised.
C17_MissingRegistryNeverReturns ==
    (OurChannelWithoutRegistry /\ Ended) =>
        /\ res.pc = "raised"
        /\ res.queries # << >>
        /\ LET last == res.queries[Len(res.queries)]
           IN IF last.outcome = "ok" THEN res.error = "AssertionError"
              ELSE res.error = last.outcome

C17_Witness ==
    /\ OurChannelWithoutRegistry
    /\ res.pc = "raised"
    /\ res.error = "AssertionError"
    /\ Len(res.queries) = 1

C19_FirstMatchInOrder ==
    OurUnlock =>
        LET n == Len(res.lookups)
        IN /\ n <= Len(Candidates)
           /\ \A i \in 1..n :
                  /\ res.lookups[i].channel_identifier = Candidates[i]
                  /\ res.lookups[i].kind = HistoryOfUnlock
                  /\ res.lookups[i].address = PartnerOfUnlock
                  /\ res.lookups[i].found <=> i \in MatchingCandidates
                  /\ res.lookups[i].found => i = n
           /\ res.pc = "lookup" => res.next = n + 1
           /\ (n > 0 /\ res.lookups[n].found) =>
                  (res.pc = "returned" /\ res.result = CandidateIdentifier(n))
           /\ res.pc = "returned" => (n > 0 /\ res.lookups[n].found)
           /\ (res.pc = "raised" /\ res.event.originating_contract \in chain_state.token_networks)
                  => n = Len(Candidates)

C19_Witness ==
    /\ OurUnlock
    /\ res.pc = "returned"
    /\ HistoryOfUnlock = "event"
    /\ MatchingCandidates = {1, 2}
    /\ Len(res.lookups) = 1
    /\ res.result = CandidateIdentifier(1)

----------------------------------------------------------------------------
(* The cursor of StatelessFilter and what was returned. *)

\* The blocks answered to get_new_entries calls that returned: their entries
\* reached a caller.
DeliveredBlocks ==
    delivered \cup
        UNION {AnsweredBlocks(calls[p]) : p \in {q \in NewCalls : calls[q].pc = "returned"}}

\* C20: between calls, every block from the filter's start block (its numeric
\* fromBlock, or the genesis block without one) up to the cursor was answered
\* to a get_new_entries call that returned, so that its entries reached a
\* caller, also when calls raised at some chunk and were retried.
C20_NoBlockSkipped ==
    (lock = 1 /\ FilterFromBlock \notin Symbolic) =>
        \A b \in FilterFromBlock..last_block : b \in DeliveredBlocks

====
